---- MODULE Spec2Model ----
(***************************************************************************)
(* Model of the support-rotation domain (domain/src/lib.rs).               *)
(*                                                                         *)
(* Dates are day numbers: day 0 is Monday 2022-12-05, so that              *)
(* 2022-12-15 (TodayStrategy::Thursday) is day 10, 2022-12-19 is day 14,   *)
(* 2022-12-22 is day 17 and 2022-12-24 is day 19.  The weekday of day d is *)
(* d % 7, counted from Monday, as chrono's Weekday is.  The representable  *)
(* range of NaiveDate is scaled down: MinDate stands for NaiveDate::MIN,   *)
(* the date below which checked_sub_days returns None.                     *)
(*                                                                         *)
(* A Rust Result is a record [kind, date, eng, msg]; kind is "Ok", "Err"   *)
(* or "Panic" (an abort: todo!() or a remainder by zero).                  *)
(***************************************************************************)
EXTENDS Integers, Sequences, FiniteSets, TLC

VARIABLES now, engineers, reservations_for_month, dept, result

vars == <<now, engineers, reservations_for_month, dept, result>>

(* ---------------------------- bounds ----------------------------------- *)

\* largest Vec<Engineer> handed to EngineeringDepartment::new
MaxEngineers == 5

\* last-served dates of the input range over the LastServedSpan + 1 days up to Thursday
LastServedSpan == 4

\* the system clock advances from Thursday up to Thursday + MaxClockTicks
MaxClockTicks == 1

\* query dates range from the day before Thursday to Thursday + MaxDaysAhead
MaxDaysAhead == 9

\* rotation lengths handed to Rota::new directly range over -1..MaxRotaLength
MaxRotaLength == 14

(* --------------------------- constants --------------------------------- *)

\* NaiveDate::MIN, scaled: checked_sub_days yields None below it
MinDate == 0

\* TodayStrategy::Thursday, 2022-12-15
Thursday == 10

number_of_business_days_in_a_week == 5

number_of_days_in_weekend == 2

\* Weekday::Sat and Weekday::Sun as num_days_from_monday
Sat == 5

Sun == 6

\* DomainError messages
served_in_the_past == "Can't tell you who served in the past!"

date_is_out_of_range == "date is out of range"

no_engineer_found == "no engineer found"

\* the error kinds the specification names for these messages
InvalidQuery == served_in_the_past

OutOfRange == date_is_out_of_range

NoEngineerFound == no_engineer_found

\* an error kind of the specification that the code has no message for
DegenerateRotation == "degenerate rotation"

(* ----------------------------- values ---------------------------------- *)

NoDate == -1

Engineer(identifier, last_time_served) ==
    [identifier |-> identifier, last_time_served |-> last_time_served]

NoEngineer == Engineer(0, NoDate)

Ok(date, eng) == [kind |-> "Ok", date |-> date, eng |-> eng, msg |-> ""]

Err(msg) == [kind |-> "Err", date |-> NoDate, eng |-> NoEngineer, msg |-> msg]

Panic(msg) == [kind |-> "Panic", date |-> NoDate, eng |-> NoEngineer, msg |-> msg]

NoDept == [built |-> FALSE, engineers_by_last_date_served |-> <<>>,
           reservations_for_month |-> <<>>, rota |-> 0]

NoResult == [op |-> "none", date |-> NoDate, today |-> NoDate, rota |-> 0,
             outcome |-> Err("")]

(* ---------------------------- AppDate ---------------------------------- *)

weekday(date) == date % 7

is_business_day(date) == weekday(date) # Sat /\ weekday(date) # Sun

go_back_n_days(date, number_of_days_to_go_back) ==
    \* a negative i64 cast "as u64" is at least 2^63 days, beyond any date
    IF number_of_days_to_go_back < 0 \/ date - number_of_days_to_go_back < MinDate
    THEN Err(date_is_out_of_range)
    ELSE Ok(date - number_of_days_to_go_back, NoEngineer)

\* slip: a weekend candidate is moved back one day only
go_back_to_nearest_business_day_one_day(date, number_of_days_to_go_back) ==
    LET n_days_ago == go_back_n_days(date, number_of_days_to_go_back)
    IN  IF n_days_ago.kind # "Ok" THEN n_days_ago
        ELSE IF is_business_day(n_days_ago.date) THEN n_days_ago
        ELSE go_back_n_days(n_days_ago.date, 1)

go_back_to_nearest_business_day(date, number_of_days_to_go_back) ==
    LET n_days_ago == go_back_n_days(date, number_of_days_to_go_back)
    IN  IF n_days_ago.kind # "Ok" THEN n_days_ago
        ELSE IF is_business_day(n_days_ago.date) THEN n_days_ago
        ELSE go_back_n_days(n_days_ago.date, 2)

\* slip: today itself passes the test (>= for >)
number_of_days_from_today_allows_today(date, today) ==
    LET days_delta == date - today
    IN  IF days_delta >= 0 THEN Ok(days_delta, NoEngineer)
        ELSE Err(served_in_the_past)

number_of_days_from_today(date, today) ==
    LET days_delta == date - today
    IN  IF days_delta > 0 THEN Ok(days_delta, NoEngineer)
        ELSE Err(served_in_the_past)

\* Rust's % truncates: for a positive dividend the result is a % |b|
rem(a, b) == IF b < 0 THEN a % (-b) ELSE a % b

\* slip: the days into the cycle are returned, not the days left of it
number_of_days_to_go_back_into_cycle(date, rota_length_in_days, today) ==
    LET from_today == number_of_days_from_today(date, today)
    IN  IF from_today.kind # "Ok" THEN from_today
        ELSE IF rota_length_in_days = 0
        THEN Panic("attempt to calculate the remainder with a divisor of zero")
        ELSE Ok(rem(from_today.date, rota_length_in_days), NoEngineer)

number_of_days_to_go_back(date, rota_length_in_days, today) ==
    LET from_today == number_of_days_from_today(date, today)
    IN  IF from_today.kind # "Ok" THEN from_today
        ELSE IF rota_length_in_days = 0
        THEN Panic("attempt to calculate the remainder with a divisor of zero")
        ELSE Ok(rota_length_in_days - rem(from_today.date, rota_length_in_days),
                NoEngineer)

last_date_served_by_engineer(date, rota_length_in_days, today) ==
    LET to_go_back == number_of_days_to_go_back(date, rota_length_in_days, today)
    IN  IF to_go_back.kind # "Ok" THEN to_go_back
        ELSE go_back_to_nearest_business_day(date, to_go_back.date)

(* ----------------------- EngineeringDepartment ------------------------- *)

\* collect::<HashMap<_, _>>() inserts in order: a later engineer replaces an
\* earlier one that has the same last-served date
RECURSIVE engineers_by_last_date_served(_)
engineers_by_last_date_served(engs) ==
    IF Len(engs) = 0 THEN <<>>
    ELSE LET front == engineers_by_last_date_served(SubSeq(engs, 1, Len(engs) - 1))
             e == engs[Len(engs)]
         IN  [d \in (DOMAIN front) \cup {e.last_time_served} |->
                 IF d = e.last_time_served THEN e ELSE front[d]]

\* slip: the weekend days are multiplied into the divisor
rota_weekend_in_divisor(engs) ==
    LET number_of_engineers == Len(engs)
    IN  number_of_engineers
            \div (number_of_business_days_in_a_week * number_of_days_in_weekend)
            + number_of_engineers

rota(engs) ==
    LET number_of_engineers == Len(engs)
    IN  (number_of_engineers \div number_of_business_days_in_a_week)
            * number_of_days_in_weekend + number_of_engineers

\* slip: the index is looked up under the query date, not the reference date
compute_engineer_serving_on_date_by_query_date(d, date, today) ==
    LET last == last_date_served_by_engineer(date, d.rota, today)
    IN  IF last.kind # "Ok" THEN last
        ELSE IF date \in DOMAIN d.engineers_by_last_date_served
        THEN Ok(NoDate, d.engineers_by_last_date_served[date])
        ELSE Err(no_engineer_found)

compute_engineer_serving_on_date(d, date, today) ==
    LET last == last_date_served_by_engineer(date, d.rota, today)
    IN  IF last.kind # "Ok" THEN last
        ELSE IF last.date \in DOMAIN d.engineers_by_last_date_served
        THEN Ok(NoDate, d.engineers_by_last_date_served[last.date])
        ELSE Err(no_engineer_found)

engineer_serving_on_date(d, date, today) ==
    IF date \in DOMAIN d.reservations_for_month
    THEN Ok(NoDate, d.reservations_for_month[date])
    ELSE compute_engineer_serving_on_date(d, date, today)

(* ------------------------------ inputs --------------------------------- *)

LastServedDates == (Thursday - LastServedSpan)..Thursday

QueryDates == (Thursday - 1)..(Thursday + MaxDaysAhead)

RotaLengths == -1..MaxRotaLength

\* the engineer lists a caller builds a department from: engineer i carries
\* identifier i and any last-served date, the most recently served first
\* (two neighbours may share a date)
EngineerLists ==
    UNION {{[i \in 1..n |-> Engineer(i, f[i])] :
               f \in {g \in [1..n -> LastServedDates] :
                         \A i \in 1..n : \A j \in 1..n : i < j => g[i] >= g[j]}}
           : n \in 0..MaxEngineers}

\* an engineer that is reserved for a date without being on the list
Reserved == Engineer(MaxEngineers + 4, Thursday - 1)

ReservationMaps ==
    {<<>>} \cup {[d \in {date} |-> Reserved] : date \in {Thursday, Thursday + 7}}

(* ------------------------------ actions -------------------------------- *)

Init ==
    /\ now = Thursday
    /\ engineers \in EngineerLists
    /\ reservations_for_month \in ReservationMaps
    /\ dept = NoDept
    /\ result = NoResult

\* chrono::Utc::now().date_naive() moves on to the next day
Tick ==
    /\ now < Thursday + MaxClockTicks
    /\ now' = now + 1
    /\ UNCHANGED <<engineers, reservations_for_month, dept, result>>

\* EngineeringDepartment::new(engineers, _, reservations_for_month)
New ==
    /\ dept' = [built |-> TRUE,
                engineers_by_last_date_served |-> engineers_by_last_date_served(engineers),
                reservations_for_month |-> reservations_for_month,
                rota |-> rota(engineers)]
    /\ UNCHANGED <<now, engineers, reservations_for_month, result>>

\* department.engineer_serving_on_date(date): takes self by value, so the
\* department is gone afterwards
EngineerServingOnDate ==
    /\ dept.built
    /\ \E date \in QueryDates :
          result' = [op |-> "query", date |-> date, today |-> now, rota |-> dept.rota,
                     outcome |-> engineer_serving_on_date(dept, date, now)]
    /\ dept' = NoDept
    /\ UNCHANGED <<now, engineers, reservations_for_month>>

\* EngineeringDepartment::mark_support_service_for_engineer(_eng) is todo!()
MarkSupportServiceForEngineer ==
    /\ \E i \in 1..Len(engineers) :
          result' = [op |-> "mark", date |-> NoDate, today |-> NoDate, rota |-> 0,
                     outcome |-> Panic("not yet implemented")]
    /\ UNCHANGED <<now, engineers, reservations_for_month, dept>>

Next ==
    \/ Tick
    \/ New
    \/ EngineerServingOnDate
    \/ MarkSupportServiceForEngineer

Spec == Init /\ [][Next]_vars

(* ------------------- the resolver on its own --------------------------- *)

InitResolver ==
    /\ now = Thursday
    /\ engineers = <<>>
    /\ reservations_for_month = <<>>
    /\ dept = NoDept
    /\ result = NoResult

\* date.last_date_served_by_engineer(Rota::new(length_in_days))
LastDateServedByEngineer ==
    /\ \E date \in QueryDates : \E length_in_days \in RotaLengths :
          result' = [op |-> "resolve", date |-> date, today |-> now,
                     rota |-> length_in_days,
                     outcome |-> last_date_served_by_engineer(date, length_in_days, now)]
    /\ UNCHANGED <<now, engineers, reservations_for_month, dept>>

NextResolver ==
    \/ Tick
    \/ LastDateServedByEngineer

SpecResolver == InitResolver /\ [][NextResolver]_vars

(* ------------------------------ claims --------------------------------- *)

\* the result of the last call is a resolver call with a positive rotation
\* length and a query date strictly after the today it read
Resolved ==
    /\ result.op = "resolve"
    /\ result.rota > 0
    /\ result.date > result.today

\* the candidate date of 4.2 step 4, as the specification writes it
Candidate ==
    result.date - (result.rota - ((result.date - result.today) % result.rota))

\* C1 (as claimed): for every L > 0 and every D strictly after today the
\* resolver succeeds, with a business day that is at most D - 1.
C1_ResolverSucceedsWithEarlierBusinessDay ==
    Resolved =>
        /\ result.outcome.kind = "Ok"
        /\ weekday(result.outcome.date) \in 0..4
        /\ result.outcome.date <= result.date - 1

\* C1 (amended): the resolver succeeds with a business day that is at most
\* D - 1 whenever D lies at least L + 2 days after the earliest representable
\* date; nearer to it the only other outcome is the OutOfRange error.
C1_ResolverBusinessDayOrOutOfRange ==
    Resolved =>
        \/ /\ result.outcome.kind = "Ok"
           /\ weekday(result.outcome.date) \in 0..4
           /\ result.outcome.date <= result.date - 1
        \/ /\ result.outcome = Err(OutOfRange)
           /\ result.date - (result.rota + 2) < MinDate

\* C1 witness: the candidate landed on a weekend, the 2-day step was taken
\* and the resolver succeeded
C1_WeekendCandidateResolved ==
    /\ Resolved
    /\ Candidate >= MinDate
    /\ weekday(Candidate) \in {Sat, Sun}
    /\ result.outcome.kind = "Ok"

\* C2: for L > 0 and D after today the candidate is D - (L - (days_ahead mod L))
\* and the reference date is the candidate when that is a business day and
\* the candidate minus exactly 2 days otherwise (the resolver reports
\* OutOfRange when one of the two is not a representable date); with L = 7
\* and today = 2022-12-15, 2022-12-22 resolves to 2022-12-15 and 2022-12-24
\* to 2022-12-19.
C2_ReferenceDateIsSnappedCandidate ==
    /\ Resolved =>
          LET reference == IF weekday(Candidate) \in {Sat, Sun}
                           THEN Candidate - 2 ELSE Candidate
          IN  IF Candidate >= MinDate /\ reference >= MinDate
              THEN result.outcome = Ok(reference, NoEngineer)
              ELSE result.outcome = Err(OutOfRange)
    /\ (Resolved /\ result.rota = 7 /\ result.today = 10 /\ result.date = 17)
          => result.outcome = Ok(10, NoEngineer)
    /\ (Resolved /\ result.rota = 7 /\ result.today = 10 /\ result.date = 19)
          => result.outcome = Ok(14, NoEngineer)

\* C2 witness: the second concrete scenario has been resolved
C2_SaturdayScenarioResolved ==
    /\ Resolved
    /\ result.rota = 7 /\ result.today = 10 /\ result.date = 19
    /\ result.outcome.date = 14

\* the result of the last call is a query of the department
Queried == result.op = "query"

\* C3 (as claimed): for every roster, reservations included, a query for a date
\* equal to or before today fails with InvalidQuery.
C3_PastQueryAlwaysInvalid ==
    (Queried /\ result.date <= result.today)
        => result.outcome = Err(InvalidQuery)

\* C3 (amended): a query for a date equal to or before today that has no
\* explicit reservation fails with InvalidQuery and returns no engineer.
C3_UnreservedPastQueryInvalid ==
    (Queried /\ result.date <= result.today
             /\ result.date \notin DOMAIN reservations_for_month)
        => result.outcome = Err(InvalidQuery)

\* C3 witness: today itself was queried on a roster of engineers, unreserved,
\* and refused
C3_TodayRefused ==
    /\ Queried
    /\ result.date = result.today
    /\ result.date \notin DOMAIN reservations_for_month
    /\ Len(engineers) > 0
    /\ result.outcome.kind = "Err"

\* C4: a roster built from 0 engineers has rotation length 0, and a query on
\* it that gets as far as the resolution (no reservation, a date after today)
\* ends in the DegenerateRotation error, never in an abort.
C4_EmptyRosterDegenerateRotation ==
    (Queried /\ Len(engineers) = 0)
        => /\ result.rota = 0
           /\ (result.date > result.today
                  /\ result.date \notin DOMAIN reservations_for_month)
                 => result.outcome = Err(DegenerateRotation)

\* two engineers of the input share a last-served date
SharedLastServedDate ==
    \E i \in 1..Len(engineers) : \E j \in 1..Len(engineers) :
        i # j /\ engineers[i].last_time_served = engineers[j].last_time_served

\* C5: build never produces a roster from a list in which two engineers
\* share a last-served date.
C5_NoRosterFromDuplicates == dept.built => ~SharedLastServedDate

\* C6: in every roster reached from a build, the index holds exactly one
\* entry per engineer, under that engineer's last-served date.
C6_IndexOneEntryPerEngineer ==
    dept.built =>
        /\ Cardinality(DOMAIN dept.engineers_by_last_date_served) = Len(engineers)
        /\ \A i \in 1..Len(engineers) :
              /\ engineers[i].last_time_served
                    \in DOMAIN dept.engineers_by_last_date_served
              /\ dept.engineers_by_last_date_served[engineers[i].last_time_served]
                    = engineers[i]

\* what the resolver yields for the last query, and the index the queried
\* roster was built with
Reference == last_date_served_by_engineer(result.date, result.rota, result.today)

Index == engineers_by_last_date_served(engineers)

\* C7: a query for a reserved date returns the reserved engineer; otherwise,
\* when the resolver yields R, the query returns the engineer indexed under R
\* and fails with NoEngineerFound exactly when the index has no entry for R;
\* an engineer that is returned is the reserved one or the one indexed under R.
C7_ReservedElseIndexedUnderReference ==
    Queried =>
        /\ result.date \in DOMAIN reservations_for_month
              => result.outcome.kind = "Ok"
                 /\ result.outcome.eng = reservations_for_month[result.date]
        /\ (result.date \notin DOMAIN reservations_for_month /\ Reference.kind = "Ok")
              => /\ Reference.date \in DOMAIN Index
                    => result.outcome.kind = "Ok"
                       /\ result.outcome.eng = Index[Reference.date]
                 /\ result.outcome = Err(NoEngineerFound)
                    <=> Reference.date \notin DOMAIN Index
        /\ result.outcome.kind = "Ok"
              => \/ /\ result.date \in DOMAIN reservations_for_month
                    /\ result.outcome.eng = reservations_for_month[result.date]
                 \/ /\ Reference.kind = "Ok"
                    /\ Reference.date \in DOMAIN Index
                    /\ result.outcome.eng = Index[Reference.date]
                    /\ result.outcome.eng.last_time_served = Reference.date

\* C7 witness: an unreserved query returned the engineer indexed under the
\* reference date, on a roster that also holds a reservation
C7_IndexedEngineerReturned ==
    /\ Queried
    /\ DOMAIN reservations_for_month # {}
    /\ result.date \notin DOMAIN reservations_for_month
    /\ result.outcome.kind = "Ok"
    /\ result.outcome.eng.last_time_served = Reference.date

\* C8: when a query for D has returned an engineer, the next query for D on
\* the same roster, with no record_service between the two, returns the same
\* engineer.
C8_SameQuerySameEngineer ==
    [][(/\ Queried
        /\ result.outcome.kind = "Ok"
        /\ result'.op = "query"
        /\ result'.date = result.date)
          => result'.outcome = result.outcome]_vars

\* C9: the rotation length of a roster built from N engineers is
\* floor(N / 5) * 2 + N; it is positive for N > 0 and 7 for N = 5.
C9_RotationLength ==
    dept.built =>
        LET N == Len(engineers)
        IN  /\ \E groups \in 0..N :
                  /\ 5 * groups <= N
                  /\ N < 5 * (groups + 1)
                  /\ dept.rota = groups * 2 + N
            /\ N > 0 => dept.rota > 0
            /\ N = 5 => dept.rota = 7

\* C9 witness: a roster has been built from 5 engineers
C9_FiveEngineersBuilt == dept.built /\ Len(engineers) = 5 /\ dept.rota = 7

\* C10: with the same today, the same roster of rotation length L > 0 and no
\* reservations, a query for D + L that follows a query for D (D after today)
\* gives the same outcome.
C10_SameOutcomeOneCycleLater ==
    [][(/\ Queried
        /\ result'.op = "query"
        /\ DOMAIN reservations_for_month = {}
        /\ result.rota > 0
        /\ result'.today = result.today
        /\ result.date > result.today
        /\ result'.date = result.date + result.rota)
          => result'.outcome = result.outcome]_vars

====
